---- MODULE Spec2Model ----
(***************************************************************************)
(* Model of the FDC2214 capacitive-sensor driver of LickStick              *)
(* (Firmware/LickStick/FDC2214.h, FDC2214.cpp).                            *)
(*                                                                         *)
(* Every public member function is one action.  A call is modelled by      *)
(* threading a "machine" record m through the statements of its body:      *)
(*   m.tb    the typeBuffer union, as its four bytes uint8[0..3]            *)
(*   m.log   the bus and timing events the call has issued so far          *)
(*   m.ntx   how many bus transactions the call has issued                  *)
(*   m.fail  the transactions of this call the bus fails (by index)        *)
(*   m.ptr, m.file   the register pointer and register file of the         *)
(*           simulated transport (used when bus = "simulated")                *)
(* The union is read the way the little-endian Arduino targets lay it out: *)
(* uint16[0] = uint8[0] + 256*uint8[1], uint32[0] likewise over four bytes.*)
(* A 32-bit value is kept as its two 16-bit halves [hi, lo]                *)
(* (value = hi * 65536 + lo), so that no arithmetic exceeds 31 bits.       *)
(***************************************************************************)
EXTENDS Integers, Sequences, FiniteSets, TLC

\* ---------------------------------------------------------------- constants
\* Sensor I2C address and register map (FDC2214.h)
ADDRESS == 42
REG_RCOUNT_CH0 == 8
REG_RCOUNT_CH1 == 9
REG_SETTLECOUNT_CH0 == 16
REG_SETTLECOUNT_CH1 == 17
REG_CLKDIVIDERS_CH0 == 20
REG_CLKDIVIDERS_CH1 == 21
REG_ERRCONFIG == 25
REG_CONFIG == 26
REG_MUXCONFIG == 27
REG_RESET == 28
REG_DRIVECURRENT_CH0 == 30
REG_DRIVECURRENT_CH1 == 31

\* ------------------------------------------------------------------- bounds
\* At most MaxFail bus transactions of one call fail.
MaxFail == 1
\* set_ACTIVE_CHANNEL is called with 0..MaxChannelArg, and with 4, 128 and
\* 255, where the products with 64 and with 2 no longer fit a byte.
MaxChannelArg == 1

\* ------------------------------------------------------------- input samples
ChannelArgs == (0 .. MaxChannelArg) \cup {4, 128, 255}
\* 16-bit setter arguments (8 and 16 are the register numbers of RCOUNT_CH0
\* and SETTLECOUNT_CH0, 256 is the reference count init() programs)
U16Samples == {0, 8, 16, 256, 4660, 65535}
\* 8-bit setter arguments
U8Samples == {0, 1, 31, 32, 255}
\* two-byte answers of the bus to a 2-byte read, in receive order; the first
\* bytes cover the four settings of bits 5 and 4 (0x00, 0x32, 0x56, 0xEF, 0xFF)
ReadSamples == { <<0, 255>>, <<50, 52>>, <<86, 120>>, <<239, 16>>, <<255, 0>> }
\* arguments of the public writeRegister16 / readRegister16
RegSamples == {REG_RCOUNT_CH0, REG_CONFIG, 126}
WordSamples == { <<18, 52>>, <<62, 1>>, <<255, 0>> }
\* constructor arguments (clockEnable, intB, shutDown)
PinSamples == { <<2, 3, 4>> }
\* what the never-initialised typeBuffer may hold after construction
UninitBytes == {0, 255}

VARIABLES
    constructed,    \* the constructor has run
    pinLog,         \* pin and timing events issued by the constructor
    typeBuffer,     \* union typeBuffer: [0..3 -> byte]
    activeChannel,  \* byte activeChannel
    chConfigBit,    \* byte chConfigBit
    lastCall,       \* the most recent public call: [op, args]
    txLog,          \* bus and timing events issued by the most recent call
    result,         \* what the most recent call returned to its caller
    selected,       \* argument of the last set_ACTIVE_CHANNEL call, -1 before any
    bus,            \* "reliable": every transaction completes, reads answer anything;
                    \* "faulty": transactions may fail; "simulated": the storing
                    \* register-file double
    regPtr,         \* the double's register pointer
    regFile         \* the double's register file

vars == << constructed, pinLog, typeBuffer, activeChannel, chConfigBit, lastCall,
           txLog, result, selected, bus, regPtr, regFile >>

\* ------------------------------------------------------------ byte helpers
Byte(x) == x % 256

Bit(x, n) == (x \div (2 ^ n)) % 2

\* Arduino bitClear(value, bit): value &= ~(1 << bit)
bitClear(x, n) == x - Bit(x, n) * (2 ^ n)

\* the union's views
uint16_0(tb) == tb[0] + 256 * tb[1]

uint32_0(tb) == [hi |-> tb[2] + 256 * tb[3], lo |-> tb[0] + 256 * tb[1]]

\* typeBuffer.uint16[0] = value
SetUint16_0(tb, value) == [tb EXCEPT ![0] = value % 256, ![1] = (value \div 256) % 256]

\* ------------------------------------------------------------ bus transport
\* the subsets of 1..n with at most k elements
RECURSIVE UpTo(_, _)
UpTo(n, k) ==
    IF n = 0 \/ k = 0 THEN { {} }
    ELSE UpTo(n - 1, k) \cup { S \cup {n} : S \in UpTo(n - 1, k - 1) }

FailSets(n) == UpTo(n, MaxFail)

Start(F) == [tb |-> typeBuffer, log |-> << >>, ntx |-> 0, fail |-> F,
             ptr |-> regPtr, file |-> regFile]

\* a call's event that is no bus transaction: Wire.begin, Wire.setClock, delay
Event(m, kind, v) == [m EXCEPT !.log = Append(m.log, [kind |-> kind, bytes |-> <<v>>, ok |-> TRUE])]

\* The simulated transport: a write transaction sets its register pointer to
\* the first byte, and one of three bytes stores the other two under it.
SimulatedStore(m, bytes) ==
    [ptr |-> bytes[1],
     file |-> IF Len(bytes) = 3 /\ bytes[1] \in DOMAIN m.file
              THEN [m.file EXCEPT ![bytes[1]] = <<bytes[2], bytes[3]>>]
              ELSE m.file]

\* The simulated transport answers a 2-byte read with the two bytes stored
\* under its register pointer, in the order they were written.
SimulatedAnswer(m) == IF m.ptr \in DOMAIN m.file THEN m.file[m.ptr] ELSE <<255, 255>>

\* Wire.beginTransmission(ADDRESS); Wire.write(bytes); Wire.endTransmission();
\* the status endTransmission returns is dropped by every caller.
Transmit(m, bytes) ==
    LET ok == (m.ntx + 1) \notin m.fail
        stored == bus = "simulated" /\ ok
    IN  [m EXCEPT !.log = Append(m.log, [kind |-> "write", bytes |-> bytes, ok |-> ok]),
                  !.ntx = m.ntx + 1,
                  !.ptr = IF stored THEN SimulatedStore(m, bytes).ptr ELSE m.ptr,
                  !.file = IF stored THEN SimulatedStore(m, bytes).file ELSE m.file]

\* Wire.requestFrom(ADDRESS, 2) followed by two Wire.read(): the bytes the two
\* reads deliver, in receive order.  A failed request leaves the receive buffer
\* empty and Wire.read() then returns -1, which is 255 as a byte.
Answer(m, data) ==
    IF (m.ntx + 1) \in m.fail THEN <<255, 255>>
    ELSE IF bus = "simulated" THEN SimulatedAnswer(m) ELSE data

RequestFrom(m, data) ==
    [m EXCEPT !.log = Append(m.log, [kind |-> "read", bytes |-> Answer(m, data),
                                     ok |-> (m.ntx + 1) \notin m.fail]),
              !.ntx = m.ntx + 1]

\* the bytes of the most recent read transaction
Received(m) == m.log[Len(m.log)].bytes

\* -------------------------------------------------------- member functions
sendByte(m, aByte) == Transmit(m, <<aByte>>)

writeRegister16(m, regID, msb, lsb) ==
    LET tb == [m.tb EXCEPT ![0] = regID, ![1] = msb, ![2] = lsb]
    IN  Transmit([m EXCEPT !.tb = tb], <<tb[0], tb[1], tb[2]>>)

\* readRegister16 with the two received bytes stored the other way round
readRegister16_Swapped(m, regID, data) ==
    LET m1 == RequestFrom(sendByte(m, regID), data)
    IN  [m1 EXCEPT !.tb = [m1.tb EXCEPT ![0] = Received(m1)[1], ![1] = Received(m1)[2]]]

readRegister16(m, regID, data) ==
    LET m1 == RequestFrom(sendByte(m, regID), data)
    IN  [m1 EXCEPT !.tb = [m1.tb EXCEPT ![1] = Received(m1)[1], ![0] = Received(m1)[2]]]

\* readSensor that addresses the data registers once and reads twice
readSensor_OneAddress(m, channel, data1, data2) ==
    LET regAddress == Byte(channel * 2)
        m1 == RequestFrom(sendByte(m, regAddress), data1)
        m2 == [m1 EXCEPT !.tb = [m1.tb EXCEPT ![3] = Received(m1)[1], ![2] = Received(m1)[2]]]
        m3 == RequestFrom(m2, data2)
        m4 == [m3 EXCEPT !.tb = [m3.tb EXCEPT ![1] = Received(m3)[1], ![0] = Received(m3)[2]]]
        m5 == [m4 EXCEPT !.tb = [m4.tb EXCEPT ![3] = bitClear(m4.tb[3], 5)]]
    IN  [m5 EXCEPT !.tb = [m5.tb EXCEPT ![3] = bitClear(m5.tb[3], 4)]]

\* readSensor that clears the watchdog bit only
readSensor_OneBit(m, channel, data1, data2) ==
    LET regAddress == Byte(channel * 2)
        m1 == RequestFrom(sendByte(m, regAddress), data1)
        m2 == [m1 EXCEPT !.tb = [m1.tb EXCEPT ![3] = Received(m1)[1], ![2] = Received(m1)[2]]]
        m3 == RequestFrom(sendByte(m2, Byte(regAddress + 1)), data2)
        m4 == [m3 EXCEPT !.tb = [m3.tb EXCEPT ![1] = Received(m3)[1], ![0] = Received(m3)[2]]]
    IN  [m4 EXCEPT !.tb = [m4.tb EXCEPT ![3] = bitClear(m4.tb[3], 5)]]

\* readSensor that reads the low-word register first
readSensor_LowFirst(m, channel, data1, data2) ==
    LET regAddress == Byte(channel * 2)
        m1 == RequestFrom(sendByte(m, Byte(regAddress + 1)), data1)
        m2 == [m1 EXCEPT !.tb = [m1.tb EXCEPT ![1] = Received(m1)[1], ![0] = Received(m1)[2]]]
        m3 == RequestFrom(sendByte(m2, regAddress), data2)
        m4 == [m3 EXCEPT !.tb = [m3.tb EXCEPT ![3] = Received(m3)[1], ![2] = Received(m3)[2]]]
        m5 == [m4 EXCEPT !.tb = [m4.tb EXCEPT ![3] = bitClear(m4.tb[3], 5)]]
    IN  [m5 EXCEPT !.tb = [m5.tb EXCEPT ![3] = bitClear(m5.tb[3], 4)]]

readSensor(m, channel, data1, data2) ==
    LET regAddress == Byte(channel * 2)
        m1 == RequestFrom(sendByte(m, regAddress), data1)
        m2 == [m1 EXCEPT !.tb = [m1.tb EXCEPT ![3] = Received(m1)[1], ![2] = Received(m1)[2]]]
        m3 == RequestFrom(sendByte(m2, Byte(regAddress + 1)), data2)
        m4 == [m3 EXCEPT !.tb = [m3.tb EXCEPT ![1] = Received(m3)[1], ![0] = Received(m3)[2]]]
        m5 == [m4 EXCEPT !.tb = [m4.tb EXCEPT ![3] = bitClear(m4.tb[3], 5)]]
    IN  [m5 EXCEPT !.tb = [m5.tb EXCEPT ![3] = bitClear(m5.tb[3], 4)]]

\* init() that programs the channel-0 settle count twice and channel 1 never
InitWrites_SettleTwice ==
    << <<REG_RESET, 128, 0>>,
       <<REG_RCOUNT_CH0, 1, 0>>,
       <<REG_RCOUNT_CH1, 1, 0>>,
       <<REG_SETTLECOUNT_CH0, 0, 10>>,
       <<REG_SETTLECOUNT_CH0, 0, 10>>,
       <<REG_CLKDIVIDERS_CH0, 16, 1>>,
       <<REG_CLKDIVIDERS_CH1, 16, 1>>,
       <<REG_ERRCONFIG, 0, 1>>,
       <<REG_MUXCONFIG, 2, 13>>,
       <<REG_DRIVECURRENT_CH0, 248, 0>>,
       <<REG_DRIVECURRENT_CH1, 248, 0>>,
       <<REG_CONFIG, 30, 1>> >>

\* init() with the main config written right after the reset
InitWrites_ConfigEarly ==
    << <<REG_RESET, 128, 0>>,
       <<REG_CONFIG, 30, 1>>,
       <<REG_RCOUNT_CH0, 1, 0>>,
       <<REG_RCOUNT_CH1, 1, 0>>,
       <<REG_SETTLECOUNT_CH0, 0, 10>>,
       <<REG_SETTLECOUNT_CH1, 0, 10>>,
       <<REG_CLKDIVIDERS_CH0, 16, 1>>,
       <<REG_CLKDIVIDERS_CH1, 16, 1>>,
       <<REG_ERRCONFIG, 0, 1>>,
       <<REG_MUXCONFIG, 2, 13>>,
       <<REG_DRIVECURRENT_CH0, 248, 0>>,
       <<REG_DRIVECURRENT_CH1, 248, 0>> >>

\* the register writes of init(), in program order
InitWrites ==
    << <<REG_RESET, 128, 0>>,
       <<REG_RCOUNT_CH0, 1, 0>>,
       <<REG_RCOUNT_CH1, 1, 0>>,
       <<REG_SETTLECOUNT_CH0, 0, 10>>,
       <<REG_SETTLECOUNT_CH1, 0, 10>>,
       <<REG_CLKDIVIDERS_CH0, 16, 1>>,
       <<REG_CLKDIVIDERS_CH1, 16, 1>>,
       <<REG_ERRCONFIG, 0, 1>>,
       <<REG_MUXCONFIG, 2, 13>>,
       <<REG_DRIVECURRENT_CH0, 248, 0>>,
       <<REG_DRIVECURRENT_CH1, 248, 0>>,
       <<REG_CONFIG, 30, 1>> >>

RECURSIVE WriteAll(_, _)
WriteAll(m, ws) ==
    IF ws = << >> THEN m
    ELSE WriteAll(writeRegister16(m, Head(ws)[1], Head(ws)[2], Head(ws)[3]), Tail(ws))

init(m) ==
    WriteAll(Event(Event(Event(m, "begin", 0), "setClock", 400000), "delay", 1), InitWrites)

\* set_RCOUNT whose last config write keeps the sleep bit set
set_RCOUNT_StaysAsleep(m, cfgBit, value) ==
    LET m1 == writeRegister16(m, REG_CONFIG, Byte(62 + cfgBit), 1)
        m2 == [m1 EXCEPT !.tb = SetUint16_0(m1.tb, value)]
        m3 == writeRegister16(m2, REG_RCOUNT_CH0, m2.tb[1], m2.tb[0])
        m4 == writeRegister16(m3, REG_RCOUNT_CH1, m3.tb[1], m3.tb[0])
    IN  writeRegister16(m4, REG_CONFIG, Byte(62 + cfgBit), 1)

set_RCOUNT(m, cfgBit, value) ==
    LET m1 == writeRegister16(m, REG_CONFIG, Byte(62 + cfgBit), 1)
        m2 == [m1 EXCEPT !.tb = SetUint16_0(m1.tb, value)]
        m3 == writeRegister16(m2, REG_RCOUNT_CH0, m2.tb[1], m2.tb[0])
        m4 == writeRegister16(m3, REG_RCOUNT_CH1, m3.tb[1], m3.tb[0])
    IN  writeRegister16(m4, REG_CONFIG, Byte(30 + cfgBit), 1)

\* set_SETTLECOUNT that wakes the chip with the channel offset left out
set_SETTLECOUNT_WakeNoOffset(m, cfgBit, value) ==
    LET m1 == writeRegister16(m, REG_CONFIG, Byte(62 + cfgBit), 1)
        m2 == [m1 EXCEPT !.tb = SetUint16_0(m1.tb, value)]
        m3 == writeRegister16(m2, REG_SETTLECOUNT_CH0, m2.tb[1], m2.tb[0])
        m4 == writeRegister16(m3, REG_SETTLECOUNT_CH1, m3.tb[1], m3.tb[0])
    IN  writeRegister16(m4, REG_CONFIG, 30, 1)

set_SETTLECOUNT(m, cfgBit, value) ==
    LET m1 == writeRegister16(m, REG_CONFIG, Byte(62 + cfgBit), 1)
        m2 == [m1 EXCEPT !.tb = SetUint16_0(m1.tb, value)]
        m3 == writeRegister16(m2, REG_SETTLECOUNT_CH0, m2.tb[1], m2.tb[0])
        m4 == writeRegister16(m3, REG_SETTLECOUNT_CH1, m3.tb[1], m3.tb[0])
    IN  writeRegister16(m4, REG_CONFIG, Byte(30 + cfgBit), 1)

\* set_REF_DIVIDER that programs channel 0 only
set_REF_DIVIDER_OneChannel(m, cfgBit, value) ==
    LET m1 == writeRegister16(m, REG_CONFIG, Byte(62 + cfgBit), 1)
        m2 == writeRegister16(m1, REG_CLKDIVIDERS_CH0, 32, value)
    IN  writeRegister16(m2, REG_CONFIG, Byte(30 + cfgBit), 1)

\* set_REF_DIVIDER whose first config write leaves the sleep bit clear
set_REF_DIVIDER_NoSleep(m, cfgBit, value) ==
    LET m1 == writeRegister16(m, REG_CONFIG, Byte(30 + cfgBit), 1)
        m2 == writeRegister16(m1, REG_CLKDIVIDERS_CH0, 32, value)
        m3 == writeRegister16(m2, REG_CLKDIVIDERS_CH1, 32, value)
    IN  writeRegister16(m3, REG_CONFIG, Byte(30 + cfgBit), 1)

set_REF_DIVIDER(m, cfgBit, value) ==
    LET m1 == writeRegister16(m, REG_CONFIG, Byte(62 + cfgBit), 1)
        m2 == writeRegister16(m1, REG_CLKDIVIDERS_CH0, 32, value)
        m3 == writeRegister16(m2, REG_CLKDIVIDERS_CH1, 32, value)
    IN  writeRegister16(m3, REG_CONFIG, Byte(30 + cfgBit), 1)

\* set_DRIVE_CURRENT that wakes the chip before programming channel 1
set_DRIVE_CURRENT_EarlyWake(m, cfgBit, value) ==
    LET m1 == writeRegister16(m, REG_CONFIG, Byte(62 + cfgBit), 1)
        m2 == writeRegister16(m1, REG_DRIVECURRENT_CH0, Byte(value * 8), 0)
        m3 == writeRegister16(m2, REG_CONFIG, Byte(30 + cfgBit), 1)
    IN  writeRegister16(m3, REG_DRIVECURRENT_CH1, Byte(value * 8), 0)

set_DRIVE_CURRENT(m, cfgBit, value) ==
    LET m1 == writeRegister16(m, REG_CONFIG, Byte(62 + cfgBit), 1)
        m2 == writeRegister16(m1, REG_DRIVECURRENT_CH0, Byte(value * 8), 0)
        m3 == writeRegister16(m2, REG_DRIVECURRENT_CH1, Byte(value * 8), 0)
    IN  writeRegister16(m3, REG_CONFIG, Byte(30 + cfgBit), 1)

\* the channel offset placed one bit too low, on the sleep bit
NewConfigBit_Bit5(newChannel) == Byte(newChannel * 32)

\* the channel offset computed with the wrong bit weight
NewConfigBit_Bit7(newChannel) == Byte(newChannel * 128)

\* chConfigBit = newChannel*B01000000, stored into a byte
NewConfigBit(newChannel) == Byte(newChannel * 64)

set_ACTIVE_CHANNEL(m, newChannel) ==
    writeRegister16(m, REG_CONFIG, Byte(30 + NewConfigBit(newChannel)), 1)

\* ------------------------------------------------- chip control bookkeeping
\* What a bus transaction tells the chip about sleep mode: a CONFIG write with
\* bit 13 (bit 5 of the high byte) set puts it to sleep, one with the bit clear
\* wakes it, a RESET write with bit 15 set is the soft-reset command.
CtlKind(tx) ==
    IF tx.kind = "write" /\ Len(tx.bytes) = 3
    THEN IF tx.bytes[1] = REG_CONFIG
         THEN (IF Bit(tx.bytes[2], 5) = 1 THEN "sleep" ELSE "wake")
         ELSE IF tx.bytes[1] = REG_RESET /\ Bit(tx.bytes[2], 7) = 1 THEN "reset" ELSE "other"
    ELSE "other"

RECURSIVE CtlAfter(_, _)
CtlAfter(ctl, log) ==
    IF log = << >> THEN ctl
    ELSE CtlAfter(IF CtlKind(Head(log)) = "other" THEN ctl ELSE CtlKind(Head(log)), Tail(log))

\* ------------------------------------------------------------------ actions
\* State before the constructor has run.
Blank(b) ==
    /\ constructed = FALSE
    /\ pinLog = << >>
    /\ typeBuffer = [i \in 0 .. 3 |-> 0]
    /\ activeChannel = 0
    /\ chConfigBit = 0
    /\ lastCall = [op |-> "none", args |-> << >>]
    /\ txLog = << >>
    /\ result = [kind |-> "none", hi |-> 0, lo |-> 0]
    /\ selected = -1
    /\ bus = b
    /\ regPtr = 0
    /\ regFile = [r \in RegSamples |-> <<0, 0>>]

Init == Blank("reliable")

InitFaulty == Blank("faulty")

InitSim == Blank("simulated")

Void == [kind |-> "void", hi |-> 0, lo |-> 0]

\* what every call leaves behind
Commit(op, args, m, res) ==
    /\ typeBuffer' = m.tb
    /\ txLog' = m.log
    /\ regPtr' = m.ptr
    /\ regFile' = m.file
    /\ lastCall' = [op |-> op, args |-> args]
    /\ result' = res
    /\ UNCHANGED << constructed, pinLog, bus >>

\* a constructor that never releases the shutdown pin
ConstructorEvents_NoRelease(clockEnable, intB, shutDown) ==
    << [op |-> "pinMode", pin |-> clockEnable, v |-> "OUTPUT"],
       [op |-> "digitalWrite", pin |-> clockEnable, v |-> "HIGH"],
       [op |-> "pinMode", pin |-> intB, v |-> "INPUT"],
       [op |-> "pinMode", pin |-> shutDown, v |-> "OUTPUT"],
       [op |-> "digitalWrite", pin |-> shutDown, v |-> "HIGH"],
       [op |-> "delay", pin |-> 1, v |-> "ms"] >>

\* the pin and timing calls of the constructor body, in program order
ConstructorEvents(clockEnable, intB, shutDown) ==
    << [op |-> "pinMode", pin |-> clockEnable, v |-> "OUTPUT"],
       [op |-> "digitalWrite", pin |-> clockEnable, v |-> "HIGH"],
       [op |-> "pinMode", pin |-> intB, v |-> "INPUT"],
       [op |-> "pinMode", pin |-> shutDown, v |-> "OUTPUT"],
       [op |-> "digitalWrite", pin |-> shutDown, v |-> "HIGH"],
       [op |-> "delay", pin |-> 1, v |-> "ms"],
       [op |-> "digitalWrite", pin |-> shutDown, v |-> "LOW"] >>

\* FDC2214::FDC2214(clockEnable, intB, shutDown); the members activeChannel
\* and chConfigBit take their default initialisers, typeBuffer has none.
Construct ==
    /\ ~constructed
    /\ \E pins \in PinSamples, fill \in UninitBytes :
         /\ pinLog' = ConstructorEvents(pins[1], pins[2], pins[3])
         /\ typeBuffer' = [i \in 0 .. 3 |-> fill]
    /\ constructed' = TRUE
    /\ activeChannel' = 0
    /\ chConfigBit' = 0
    /\ UNCHANGED << lastCall, txLog, result, selected, bus, regPtr, regFile >>

\* the transactions of a call that the bus may fail
Fails(n) == IF bus = "faulty" THEN FailSets(n) ELSE { {} }

\* init() that also puts the driver back on channel 0
CallInit_ResetsChannel ==
    /\ constructed
    /\ \E F \in Fails(12) : Commit("init", << >>, init(Start(F)), Void)
    /\ activeChannel' = 0
    /\ chConfigBit' = 0
    /\ UNCHANGED selected

CallInit ==
    /\ constructed
    /\ \E F \in Fails(12) : Commit("init", << >>, init(Start(F)), Void)
    /\ UNCHANGED << activeChannel, chConfigBit, selected >>

CallReadSensor ==
    /\ constructed
    /\ \E F \in Fails(4), d1 \in ReadSamples, d2 \in ReadSamples :
         LET m == readSensor(Start(F), activeChannel, d1, d2)
         IN  Commit("readSensor", << >>, m,
                    [kind |-> "u32", hi |-> uint32_0(m.tb).hi, lo |-> uint32_0(m.tb).lo])
    /\ UNCHANGED << activeChannel, chConfigBit, selected >>

CallReadRegister16 ==
    /\ constructed
    /\ \E F \in Fails(2), regID \in RegSamples, d \in ReadSamples :
         LET m == readRegister16(Start(F), regID, d)
         IN  Commit("readRegister16", <<regID>>, m,
                    [kind |-> "u16", hi |-> 0, lo |-> uint16_0(m.tb)])
    /\ UNCHANGED << activeChannel, chConfigBit, selected >>

CallWriteRegister16 ==
    /\ constructed
    /\ \E F \in Fails(1), regID \in RegSamples, w \in WordSamples :
         Commit("writeRegister16", <<regID, w[1], w[2]>>,
                writeRegister16(Start(F), regID, w[1], w[2]), Void)
    /\ UNCHANGED << activeChannel, chConfigBit, selected >>

CallSet_RCOUNT ==
    /\ constructed
    /\ \E F \in Fails(4), value \in U16Samples :
         Commit("set_RCOUNT", <<value>>, set_RCOUNT(Start(F), chConfigBit, value), Void)
    /\ UNCHANGED << activeChannel, chConfigBit, selected >>

CallSet_SETTLECOUNT ==
    /\ constructed
    /\ \E F \in Fails(4), value \in U16Samples :
         Commit("set_SETTLECOUNT", <<value>>, set_SETTLECOUNT(Start(F), chConfigBit, value), Void)
    /\ UNCHANGED << activeChannel, chConfigBit, selected >>

CallSet_REF_DIVIDER ==
    /\ constructed
    /\ \E F \in Fails(4), value \in U8Samples :
         Commit("set_REF_DIVIDER", <<value>>, set_REF_DIVIDER(Start(F), chConfigBit, value), Void)
    /\ UNCHANGED << activeChannel, chConfigBit, selected >>

CallSet_DRIVE_CURRENT ==
    /\ constructed
    /\ \E F \in Fails(4), value \in U8Samples :
         Commit("set_DRIVE_CURRENT", <<value>>, set_DRIVE_CURRENT(Start(F), chConfigBit, value), Void)
    /\ UNCHANGED << activeChannel, chConfigBit, selected >>

CallSet_ACTIVE_CHANNEL ==
    /\ constructed
    /\ \E F \in Fails(1), newChannel \in ChannelArgs :
         /\ activeChannel' = newChannel
         /\ chConfigBit' = NewConfigBit(newChannel)
         /\ selected' = newChannel
         /\ Commit("set_ACTIVE_CHANNEL", <<newChannel>>,
                   set_ACTIVE_CHANNEL(Start(F), newChannel), Void)

Next ==
    \/ Construct
    \/ CallInit
    \/ CallReadSensor
    \/ CallReadRegister16
    \/ CallWriteRegister16
    \/ CallSet_RCOUNT
    \/ CallSet_SETTLECOUNT
    \/ CallSet_REF_DIVIDER
    \/ CallSet_DRIVE_CURRENT
    \/ CallSet_ACTIVE_CHANNEL

Spec == Init /\ [][Next]_vars

\* The driver on a bus that may fail transactions.
SpecFaulty == InitFaulty /\ [][Next]_vars

\* The driver on the simulated register-file transport, exercised through its
\* register-level interface.
NextSim ==
    \/ Construct
    \/ CallWriteRegister16
    \/ CallReadRegister16

SpecSim == InitSim /\ [][NextSim]_vars

\* ------------------------------------------------------------------- claims
Setters == {"set_RCOUNT", "set_SETTLECOUNT", "set_REF_DIVIDER", "set_DRIVE_CURRENT"}

ConfigCalls == Setters \cup {"init", "set_ACTIVE_CHANNEL"}

IsRegWrite(e) == e.kind = "write" /\ Len(e.bytes) = 3

\* the register-write transactions of a call, in issue order
RegWrites(log) == SelectSeq(log, IsRegWrite)

\* the bus transactions of a call, in issue order
BusTx(log) == SelectSeq(log, LAMBDA e : e.kind \in {"write", "read"})

IsConfigWrite(e) == IsRegWrite(e) /\ e.bytes[1] = REG_CONFIG

\* a write to a register that takes values only while the chip sleeps
IsProtectedWrite(e) == IsRegWrite(e) /\ e.bytes[1] \notin {REG_CONFIG, REG_RESET}

Ch0Reg(op) ==
    CASE op = "set_RCOUNT" -> REG_RCOUNT_CH0
      [] op = "set_SETTLECOUNT" -> REG_SETTLECOUNT_CH0
      [] op = "set_REF_DIVIDER" -> REG_CLKDIVIDERS_CH0
      [] op = "set_DRIVE_CURRENT" -> REG_DRIVECURRENT_CH0

Ch1Reg(op) ==
    CASE op = "set_RCOUNT" -> REG_RCOUNT_CH1
      [] op = "set_SETTLECOUNT" -> REG_SETTLECOUNT_CH1
      [] op = "set_REF_DIVIDER" -> REG_CLKDIVIDERS_CH1
      [] op = "set_DRIVE_CURRENT" -> REG_DRIVECURRENT_CH1

\* the data bytes a register write carries
Data(e) == <<e.bytes[2], e.bytes[3]>>

\* C1: in every setter call the data bytes written to the channel-0 register
\* and to the channel-1 register are the same, and for the two 16-bit setters
\* both are <<value >> 8, value & 0xFF>>.
C1_BothChannelsSameData ==
    lastCall.op \in Setters =>
        LET w0 == SelectSeq(txLog, LAMBDA e : IsRegWrite(e) /\ e.bytes[1] = Ch0Reg(lastCall.op))
            w1 == SelectSeq(txLog, LAMBDA e : IsRegWrite(e) /\ e.bytes[1] = Ch1Reg(lastCall.op))
            value == lastCall.args[1]
        IN  /\ Len(w0) = 1
            /\ Len(w1) = 1
            /\ Data(w0[1]) = Data(w1[1])
            /\ lastCall.op \in {"set_RCOUNT", "set_SETTLECOUNT"} =>
                   /\ Data(w0[1]) = <<value \div 256, value % 256>>
                   /\ Data(w1[1]) = <<value \div 256, value % 256>>

\* C2: in every call of init(), a setter or set_ACTIVE_CHANNEL, each write to
\* a register other than CONFIG (and the RESET command) comes while the chip
\* sleeps: the most recent CONFIG or RESET write before it is a CONFIG write
\* with the sleep bit set or the soft-reset command.  The chip is taken to be
\* awake when the call starts, whatever the calls before it did.
C2_ProtectedWritesWhileAsleep ==
    lastCall.op \in ConfigCalls =>
        \A i \in 1 .. Len(txLog) :
            IsProtectedWrite(txLog[i]) =>
                CtlAfter("wake", SubSeq(txLog, 1, i - 1)) \in {"sleep", "reset"}

C2_Witness ==
    /\ lastCall.op = "set_REF_DIVIDER"
    /\ selected = 1
    /\ \E i \in 1 .. Len(txLog) : IsProtectedWrite(txLog[i])

\* C3: every setter call issues exactly these bus transactions, in this
\* order: CONFIG with the sleep bit set, the channel-0 data register, the
\* channel-1 data register, CONFIG with the sleep bit clear.
C3_SetterWriteOrder ==
    lastCall.op \in Setters =>
        /\ BusTx(txLog) = RegWrites(txLog)
        /\ Len(RegWrites(txLog)) = 4
        /\ [i \in 1 .. 4 |-> RegWrites(txLog)[i].bytes[1]]
             = <<REG_CONFIG, Ch0Reg(lastCall.op), Ch1Reg(lastCall.op), REG_CONFIG>>
        /\ Bit(RegWrites(txLog)[1].bytes[2], 5) = 1
        /\ Bit(RegWrites(txLog)[4].bytes[2], 5) = 0

C3_Witness ==
    /\ lastCall.op = "set_DRIVE_CURRENT"
    /\ Len(RegWrites(txLog)) = 4

\* C4: in every call of init() the CONFIG write is the last register write of
\* the call and the only CONFIG write of the call.
C4_InitConfigLast ==
    lastCall.op = "init" =>
        LET w == RegWrites(txLog)
        IN  /\ Len(w) > 0
            /\ IsConfigWrite(w[Len(w)])
            /\ \A i \in 1 .. Len(w) - 1 : ~IsConfigWrite(w[i])

\* init() called in a state other than the one construction leaves
C4_Witness ==
    /\ lastCall.op = "init"
    /\ selected = 1
    /\ typeBuffer[3] = 2
    /\ Len(RegWrites(txLog)) = 12

\* C5: bits 29 and 28 of every value readSensor returns (bits 13 and 12 of its
\* high half) are 0.
C5_StatusBitsMasked ==
    result.kind = "u32" => (Bit(result.hi, 13) = 0 /\ Bit(result.hi, 12) = 0)

\* readSensor has returned after the bus delivered 0xFF as the first byte
C5_Witness ==
    /\ lastCall.op = "readSensor"
    /\ result.kind = "u32"
    /\ BusTx(txLog)[2].bytes[1] = 255

\* C6: readSensor with active channel c addresses register c*2, reads two
\* bytes b0 b1, addresses register c*2+1, reads two bytes b2 b3 (register
\* numbers being bytes on the bus), and returns b0<<24 | b1<<16 | b2<<8 | b3
\* with bits 29 and 28 cleared and every other bit as received; the bytes
\* 0x32 0x34 0x56 0x78 give 0x02345678.
C6_ReadSensorValue ==
    lastCall.op = "readSensor" =>
        LET t == BusTx(txLog)
            b0 == t[2].bytes[1]
            b1 == t[2].bytes[2]
            b2 == t[4].bytes[1]
            b3 == t[4].bytes[2]
        IN  /\ Len(t) = 4
            /\ t[1].kind = "write" /\ t[1].bytes = <<(activeChannel * 2) % 256>>
            /\ t[2].kind = "read"
            /\ t[3].kind = "write" /\ t[3].bytes = <<(activeChannel * 2 + 1) % 256>>
            /\ t[4].kind = "read"
            /\ result.kind = "u32"
            /\ \A k \in 0 .. 15 :
                   Bit(result.hi, k) = IF k \in {12, 13} THEN 0 ELSE Bit(b0 * 256 + b1, k)
            /\ result.hi < 65536
            /\ result.lo = b2 * 256 + b3
            /\ <<b0, b1, b2, b3>> = <<50, 52, 86, 120>> => (result.hi = 564 /\ result.lo = 22136)

\* channel 1 is read and the bus delivers 0x32 0x34 0x56 0x78
C6_Witness ==
    /\ lastCall.op = "readSensor"
    /\ activeChannel = 1
    /\ BusTx(txLog)[2].bytes = <<50, 52>>
    /\ BusTx(txLog)[4].bytes = <<86, 120>>

\* C7: on the storing register-file transport, writeRegister16(r, msb, lsb)
\* followed by readRegister16(r) returns msb * 256 + lsb.
C7_RegisterRoundTrip ==
    [][ ( /\ lastCall.op = "writeRegister16"
          /\ lastCall'.op = "readRegister16"
          /\ lastCall'.args[1] = lastCall.args[1] )
        => ( /\ result'.kind = "u16"
             /\ result'.lo = lastCall.args[2] * 256 + lastCall.args[3] ) ]_vars

\* a read has returned 0x1234, which only a preceding write can have stored
C7_Witness ==
    /\ bus = "simulated"
    /\ lastCall.op = "readRegister16"
    /\ result.lo = 4660

\* C8: for c in {0, 1}, set_ACTIVE_CHANNEL(c) issues exactly one bus
\* transaction, a CONFIG write with the sleep bit clear whose high byte is
\* 0x1E + c * 0x40.
C8_ActiveChannelWrite ==
    (lastCall.op = "set_ACTIVE_CHANNEL" /\ lastCall.args[1] \in {0, 1}) =>
        /\ Len(BusTx(txLog)) = 1
        /\ IsConfigWrite(BusTx(txLog)[1])
        /\ Bit(BusTx(txLog)[1].bytes[2], 5) = 0
        /\ BusTx(txLog)[1].bytes[2] = 30 + lastCall.args[1] * 64

C8_Witness ==
    /\ lastCall.op = "set_ACTIVE_CHANNEL"
    /\ lastCall.args = <<1>>
    /\ Len(BusTx(txLog)) = 1

\* the offset the last set_ACTIVE_CHANNEL(c) asks for, as the byte the high
\* byte of CONFIG can carry; 0 before any such call
SelectedOffset == IF selected = -1 THEN 0 ELSE (selected * 64) % 256

\* C9: the sleep write and the wake write of every setter call carry, in the
\* CONFIG high byte, the offset c * 0x40 of the most recent
\* set_ACTIVE_CHANNEL(c), and offset 0 before any such call.
C9_SettersCarryOffset ==
    lastCall.op \in Setters =>
        LET w == RegWrites(txLog)
        IN  /\ w[1].bytes[2] = 62 + SelectedOffset
            /\ w[Len(w)].bytes[2] = 30 + SelectedOffset

\* a setter has run with channel 1 selected and the read buffer used since
C9_Witness ==
    /\ lastCall.op = "set_SETTLECOUNT"
    /\ selected = 1
    /\ typeBuffer[3] = 2

\* C10: a call in which a bus transaction failed reports the failure to its
\* caller, and no failed transaction is issued again.
C10_FailureReported ==
    /\ (\E i \in 1 .. Len(txLog) : ~txLog[i].ok) => result.kind = "failure"
    /\ \A i \in 1 .. Len(txLog) - 1 :
           (txLog[i].kind = "write" /\ ~txLog[i].ok) =>
               ~(txLog[i + 1].kind = "write" /\ txLog[i + 1].bytes = txLog[i].bytes)

\* C11: the driver's active channel is 0 or 1 in every reachable state.
C11_ActiveChannelValid == activeChannel \in {0, 1}

\* the digitalWrite calls of the constructor on one pin, in order
PinWrites(pin) == SelectSeq(pinLog, LAMBDA e : e.op = "digitalWrite" /\ e.pin = pin)

\* C12: once constructed, the clock-enable pin has been driven HIGH, the
\* data-ready pin configured as input, the shutdown pin driven HIGH, then
\* after a delay LOW, and left LOW; and no bus transaction has been issued
\* before the first member-function call.
C12_ConstructionPins ==
    /\ constructed =>
         \E pins \in PinSamples :
            LET ce == PinWrites(pins[1])
                sd == PinWrites(pins[3])
            IN  /\ Len(ce) > 0 /\ ce[Len(ce)].v = "HIGH"
                /\ \E i \in 1 .. Len(pinLog) :
                       pinLog[i] = [op |-> "pinMode", pin |-> pins[2], v |-> "INPUT"]
                /\ \E i, j, k \in 1 .. Len(pinLog) :
                       /\ i < j /\ j < k
                       /\ pinLog[i] = [op |-> "digitalWrite", pin |-> pins[3], v |-> "HIGH"]
                       /\ pinLog[j].op = "delay"
                       /\ pinLog[k] = [op |-> "digitalWrite", pin |-> pins[3], v |-> "LOW"]
                /\ Len(sd) > 0 /\ sd[Len(sd)].v = "LOW"
    /\ lastCall.op = "none" => txLog = << >>

\* the constructor has run and nothing else has
C12_Witness ==
    /\ constructed
    /\ lastCall.op = "none"
    /\ Len(pinLog) > 0

\* C13: construction leaves channel 0 and offset 0, and every call other than
\* set_ACTIVE_CHANNEL leaves activeChannel and chConfigBit as they were.
C13_ConfigStateFrame ==
    [][ /\ (~constructed /\ constructed') => (activeChannel' = 0 /\ chConfigBit' = 0)
        /\ (constructed /\ lastCall'.op # "set_ACTIVE_CHANNEL") =>
               (activeChannel' = activeChannel /\ chConfigBit' = chConfigBit) ]_vars

\* init() has returned with channel 1 still selected
C13_Witness ==
    /\ lastCall.op = "init"
    /\ activeChannel = 1
    /\ chConfigBit = 64

\* C14 as stated: every setter call issues exactly three register writes.
C14_SetterThreeWrites ==
    lastCall.op \in Setters => Len(RegWrites(txLog)) = 3

\* C14, amended: every setter call issues exactly four register writes and
\* no other bus transaction.
C14_SetterFourWrites ==
    lastCall.op \in Setters =>
        (Len(RegWrites(txLog)) = 4 /\ Len(BusTx(txLog)) = 4)

C14_Witness ==
    /\ lastCall.op = "set_REF_DIVIDER"
    /\ Len(RegWrites(txLog)) = 4
    /\ selected = 0

\* C15: every init() call writes, in this order and each exactly once, RESET
\* (the soft-reset command), the reference counts, the settle counts and the
\* clock dividers of both channels, ERRCONFIG, MUXCONFIG, the drive currents
\* of both channels and CONFIG, and issues no other bus transaction.
C15_InitSequence ==
    lastCall.op = "init" =>
        LET w == RegWrites(txLog)
        IN  /\ BusTx(txLog) = w
            /\ Len(w) = 12
            /\ [i \in 1 .. 12 |-> w[i].bytes[1]]
                 = <<REG_RESET, REG_RCOUNT_CH0, REG_RCOUNT_CH1,
                     REG_SETTLECOUNT_CH0, REG_SETTLECOUNT_CH1,
                     REG_CLKDIVIDERS_CH0, REG_CLKDIVIDERS_CH1,
                     REG_ERRCONFIG, REG_MUXCONFIG,
                     REG_DRIVECURRENT_CH0, REG_DRIVECURRENT_CH1, REG_CONFIG>>
            /\ CtlKind(w[1]) = "reset"
            /\ \A i, j \in 1 .. 12 : w[i].bytes[1] = w[j].bytes[1] => i = j

\* init() has run with an out-of-range channel selected and the buffer used
C15_Witness ==
    /\ lastCall.op = "init"
    /\ activeChannel = 255
    /\ typeBuffer[3] = 207

\* C16: every readSensor call issues exactly four bus transactions: a
\* one-byte write of the high-word register number, a 2-byte read, a one-byte
\* write of the next register number, a 2-byte read; it writes no register,
\* and the value it returns is made of the bytes this call received.
C16_ReadSensorTransactions ==
    lastCall.op = "readSensor" =>
        LET t == BusTx(txLog)
        IN  /\ Len(t) = 4
            /\ RegWrites(txLog) = << >>
            /\ \A i \in {1, 3} : t[i].kind = "write" /\ Len(t[i].bytes) = 1
            /\ \A i \in {2, 4} : t[i].kind = "read" /\ Len(t[i].bytes) = 2
            /\ t[3].bytes[1] = (t[1].bytes[1] + 1) % 256
            /\ t[1].bytes[1] % 2 = 0
            /\ result.lo = t[4].bytes[1] * 256 + t[4].bytes[2]
            /\ result.hi % 4096 = (t[2].bytes[1] % 16) * 256 + t[2].bytes[2]

\* a readSensor call whose answer differs from what the buffer held before
C16_Witness ==
    /\ lastCall.op = "readSensor"
    /\ BusTx(txLog)[2].bytes = <<239, 16>>
    /\ BusTx(txLog)[4].bytes = <<0, 255>>
    /\ result.lo = 255

\* the last CONFIG write of a call
LastConfigWrite(log) ==
    LET c == SelectSeq(log, IsConfigWrite) IN c[Len(c)]

\* C17: after init(), a setter or set_ACTIVE_CHANNEL, with only channels 0
\* and 1 ever selected, the channel-select bits of the last CONFIG high byte
\* written are activeChannel * 0x40.
C17_ChipChannelMatchesDriver ==
    (lastCall.op \in ConfigCalls /\ selected \in {-1, 0, 1}) =>
        (LastConfigWrite(txLog).bytes[2] \div 64) * 64 = activeChannel * 64

\* C18: when init(), a setter or set_ACTIVE_CHANNEL returns, the last CONFIG
\* write it issued has the sleep bit clear, and no reset follows it.
C18_LeftAwake ==
    lastCall.op \in ConfigCalls =>
        /\ Bit(LastConfigWrite(txLog).bytes[2], 5) = 0
        /\ CtlAfter("sleep", txLog) = "wake"

C18_Witness ==
    /\ lastCall.op = "set_RCOUNT"
    /\ selected = 128
    /\ Bit(LastConfigWrite(txLog).bytes[2], 5) = 0

\* C19: for every 8-bit argument of set_ACTIVE_CHANNEL the channel offset has
\* its low six bits clear and adds to 0x3E and 0x1E without carry, and in
\* every setter call the sleep write's high byte has low six bits 0x3E and
\* the wake write's 0x1E; so has set_ACTIVE_CHANNEL's wake write.
C19_LowSixBitsKept ==
    /\ \A c \in 0 .. 255 :
           /\ NewConfigBit(c) % 64 = 0
           /\ Byte(62 + NewConfigBit(c)) % 64 = 62
           /\ Byte(30 + NewConfigBit(c)) % 64 = 30
    /\ lastCall.op \in Setters =>
           /\ RegWrites(txLog)[1].bytes[2] % 64 = 62
           /\ RegWrites(txLog)[Len(RegWrites(txLog))].bytes[2] % 64 = 30
    /\ lastCall.op = "set_ACTIVE_CHANNEL" =>
           RegWrites(txLog)[1].bytes[2] % 64 = 30

\* a setter has run after set_ACTIVE_CHANNEL(255)
C19_Witness ==
    /\ lastCall.op \in Setters
    /\ selected = 255
    /\ RegWrites(txLog)[1].bytes[2] = 254

\* the data bytes init() writes to a register
InitData(reg) ==
    LET i == CHOOSE k \in 1 .. Len(InitWrites) : InitWrites[k][1] = reg
    IN  <<InitWrites[i][2], InitWrites[i][3]>>

\* C20: set_REF_DIVIDER(v) writes to both clock-divider registers the high
\* byte init() writes there and the low byte v.
C20_RefDividerKeepsFinSel ==
    lastCall.op = "set_REF_DIVIDER" =>
        \A i \in 1 .. Len(txLog) :
            (IsRegWrite(txLog[i]) /\ txLog[i].bytes[1] \in {REG_CLKDIVIDERS_CH0, REG_CLKDIVIDERS_CH1}) =>
                /\ txLog[i].bytes[2] = InitData(txLog[i].bytes[1])[1]
                /\ txLog[i].bytes[3] = lastCall.args[1]

====
